---- MODULE Spec2Model ----
(***************************************************************************)
(* SilentCheckmate: the WebSocket game server of src/server/auth.js        *)
(* (wss.on('connection') and its handlers, lines 178-732).                 *)
(*                                                                         *)
(* Node runs every handler to completion on one thread, so each inbound    *)
(* frame (and each close event) is one atomic action.  A handler is an     *)
(* operator from the current state and the frame to the state it leaves    *)
(* and the frames it sends (field out); the action of the frame installs   *)
(* that state.  A frame that is only answered with an error leaves every   *)
(* variable as it is.                                                      *)
(*                                                                         *)
(* The rules engine (chess.js) is abstracted to a position that carries    *)
(* the side to move, the number of half-moves played and the terminal      *)
(* classification; a candidate move is abstracted to the classification    *)
(* of the position it leads to.                                            *)
(***************************************************************************)
EXTENDS Integers, Sequences, FiniteSets, TLC

\* ---------------------------------------------------------------- bounds
MaxPly == 4
MaxHandoffs == 2

\* ------------------------------------------------------------ value sets
Conns == {"c1", "c2"}
Usernames == {"alice", "bob"}
MoreUsernames == Usernames \cup {"carol"}
GameIds == {1}

\* game ids a JOIN_GAME frame may name: the ids in use and one never created
FrameGameIds == 1..(Cardinality(GameIds) + 1)

\* null / undefined playerId, and null gameId
NoId == "none"
NoGame == 0

\* candidate moves, named by what the rules engine answers for them
LegalMoves == {"quiet", "mate", "stale", "rdraw"}
Moves == LegalMoves \cup {"bad"}
QuietMoves == {"quiet", "bad"}

\* the clients of the pg connection pool, and the calls of recordGameResult
\* that are followed statement by statement
PoolClients == {"k1", "k2"}
RecIds == {1}

\* server.js: the sockets its WebSocket server accepts, each used once
Sockets == {"s1", "s2"}
NoSocket == "null"

\* routes.js: the rows of refresh_tokens, the /auth/refresh requests in
\* flight, and the seconds of the clock that jwt.sign stamps a token with
RowIds == {1, 2, 3}
ReqIds == {"r1", "r2"}
Seconds == {1, 2}

VARIABLES
  conns,      \* per connection: in wss.clients?, closure playerId, closure gameId
  games,      \* the games registry: sequence indexed by game id
  handoffs,   \* history: per game, the number of calls of recordGameResult
  accepted,   \* history: per game, the number of moves the server accepted
  last,       \* history: the kind of the last event that changed the state
  users,      \* database: the usernames of the users table
  db,         \* database: the committed writes of the recordings
  pool,       \* per pool client: in a transaction?, its uncommitted writes
  recs,       \* the calls of recordGameResult: arguments and position
  down,       \* the server process has exited
  sockets,    \* server.js: per socket its readyState, isAlive, whether a
              \* ping is unanswered, socket.username and socket.gameId
  wsGames,    \* server.js: games
  userSockets,\* server.js: userSockets
  crashed,    \* server.js: the process has exited
  rows,       \* routes.js: the refresh_tokens table
  reqs,       \* routes.js: per /auth/refresh request its position, the
              \* token of its cookie, the row it matched, the token it signed
  now         \* routes.js: the clock, in seconds

recVars == <<users, db, pool, recs, down>>

wsVars == <<sockets, wsGames, userSockets, crashed>>

rtVars == <<rows, reqs, now>>

vars ==
  <<conns, games, handoffs, accepted, last, users, db, pool, recs, down,
    sockets, wsGames, userSockets, crashed, rows, reqs, now>>

\* --------------------------------------------------------- rules engine
\* new Chess()
NewChess == [turn |-> "w", ply |-> 0, cls |-> "normal"]

\* chess.turn()
Turn(chess) == chess.turn

\* chess.isCheckmate()
IsCheckmate(chess) == chess.cls = "mate"

\* chess.isDraw(): stalemate, insufficient material, repetition, 50 moves
IsDraw(chess) == chess.cls \in {"stale", "rdraw"}

\* the shortest game the rules allow to end: no position reached from
\* new Chess() in fewer half-moves is checkmate, stalemate or a draw
FoolsMate == <<"f3", "e5", "g4", "Qh4#">>

\* chess.move(...) finds the candidate move legal: "bad" never is, a
\* position without legal moves accepts nothing, and a move that ends the
\* game needs the half-moves before it
IsLegal(chess, m) ==
  /\ m \in LegalMoves
  /\ chess.cls \notin {"mate", "stale"}
  /\ m # "quiet" => chess.ply + 1 >= Len(FoolsMate)

\* chess.move(...): the position after a legal move
ChessMove(chess, m) ==
  [turn |-> IF chess.turn = "w" THEN "b" ELSE "w",
   ply  |-> chess.ply + 1,
   cls  |-> IF m = "quiet" THEN "normal" ELSE m]

\* ------------------------------------------------------------- frames
Err(msg) == [type |-> "ERROR", message |-> msg]

NoOut == [c \in Conns |-> <<>>]

\* ws.send(frame)
Send(o, c, f) == [o EXCEPT ![c] = Append(@, f)]

\* Broadcast that reaches nobody
BroadcastToNobody(o, ids, f) == o

\* wss.clients.forEach(client => if (client.playerId === one of ids) send)
\* ws.playerId is undefined before LOGIN and never equals a seat (or null)
Broadcast(o, ids, f) ==
  [c \in Conns |->
     IF conns[c].open /\ conns[c].playerId # NoId /\ conns[c].playerId \in ids
     THEN Append(o[c], f) ELSE o[c]]

\* ------------------------------------------------------ handler results
\* what a handler leaves: the state, the frames sent to each connection
\* (out), and the calls of recordGameResult it made (recorded)
Result(cs, gs, hs, acc, o, rec) ==
  [conns |-> cs, games |-> gs, handoffs |-> hs, accepted |-> acc,
   out |-> o, recorded |-> rec]

\* a frame answered with an error frame to the sender and nothing else
Rejected(c, msg) ==
  Result(conns, games, handoffs, accepted, Send(NoOut, c, Err(msg)), <<>>)

\* the frames of r sent to c hold an error frame
HasError(r, c) == \E i \in DOMAIN r.out[c] : r.out[c][i].type = "ERROR"

\* the frames of r sent to c hold a frame of type t
HasFrame(r, c, t) == \E i \in DOMAIN r.out[c] : r.out[c][i].type = t

\* r leaves the state as it is
NoChange(r) ==
  /\ r.conns = conns
  /\ r.games = games
  /\ r.handoffs = handoffs
  /\ r.accepted = accepted

\* the state r leaves is within the bounds of the exploration
WithinBounds(r) ==
  /\ Len(r.games) <= Cardinality(GameIds)
  /\ \A g \in DOMAIN r.handoffs : r.handoffs[g] <= MaxHandoffs
  /\ \A g \in DOMAIN r.games : r.games[g].chess.ply <= MaxPly

\* the frame op of connection c is processed with result r: the state the
\* handler leaves
Install(c, op, r) ==
  /\ conns[c].open
  /\ WithinBounds(r)
  /\ conns' = r.conns
  /\ games' = r.games
  /\ handoffs' = r.handoffs
  /\ accepted' = r.accepted
  /\ last' = IF NoChange(r) THEN last ELSE op

\* the same, with what recordGameResult goes on to do left out
Step(c, op, r) ==
  Install(c, op, r) /\ UNCHANGED recVars /\ UNCHANGED wsVars /\ UNCHANGED rtVars

\* ------------------------------------------------------------- Init
\* the server has started: no connection, no game, an idle pool
Started ==
  /\ conns = [c \in Conns |-> [open |-> FALSE, playerId |-> NoId, gameId |-> NoGame]]
  /\ games = <<>>
  /\ handoffs = <<>>
  /\ accepted = <<>>
  /\ last = "init"
  /\ db = {}
  /\ pool = [k \in PoolClients |-> [inTxn |-> FALSE, pending |-> {}]]
  /\ recs = <<>>
  /\ down = FALSE
  /\ sockets = [s \in Sockets |->
                  [state |-> "fresh", isAlive |-> FALSE, ping |-> FALSE,
                   username |-> NoId, gameId |-> NoGame]]
  /\ wsGames = <<>>
  /\ userSockets = [u \in Usernames |-> NoSocket]
  /\ crashed = FALSE
  /\ rows = <<>>
  /\ reqs = [r \in ReqIds |-> [pc |-> "idle", token |-> 0, match |-> 0, fresh |-> 0]]
  /\ now = 1

\* every player is a registered user
Init == Started /\ users = Usernames

\* wss.on('connection'): a fresh closure, playerId = null, gameId = null
Connect(c) ==
  /\ ~conns[c].open
  /\ conns' = [conns EXCEPT ![c] = [open |-> TRUE, playerId |-> NoId, gameId |-> NoGame]]
  /\ last' = "connect"
  /\ UNCHANGED <<games, handoffs, accepted>>
  /\ UNCHANGED recVars
  /\ UNCHANGED wsVars
  /\ UNCHANGED rtVars

\* onClose that empties the seat of the player who left
onCloseEmptiesSeat(c) ==
  LET pid == conns[c].playerId
      gid == conns[c].gameId
      gs == IF pid # NoId /\ gid # NoGame /\ gid \in DOMAIN games
            THEN IF games[gid].white = pid
                 THEN [games EXCEPT ![gid].white = NoId, ![gid].whiteConnected = FALSE]
                 ELSE IF games[gid].black = pid
                 THEN [games EXCEPT ![gid].black = NoId, ![gid].blackConnected = FALSE]
                 ELSE games
            ELSE games
  IN Result([conns EXCEPT ![c] = [open |-> FALSE, playerId |-> NoId, gameId |-> NoGame]],
            gs, handoffs, accepted, NoOut, <<>>)

\* ws.on('close') (lines 256-267); the socket leaves wss.clients and its
\* closure is dead
onClose(c) ==
  LET pid == conns[c].playerId
      gid == conns[c].gameId
      gs == IF pid # NoId /\ gid # NoGame /\ gid \in DOMAIN games
            THEN IF games[gid].white = pid
                 THEN [games EXCEPT ![gid].whiteConnected = FALSE]
                 ELSE IF games[gid].black = pid
                 THEN [games EXCEPT ![gid].blackConnected = FALSE]
                 ELSE games
            ELSE games
  IN Result([conns EXCEPT ![c] = [open |-> FALSE, playerId |-> NoId, gameId |-> NoGame]],
            gs, handoffs, accepted, NoOut, <<>>)

\* handleLogin (lines 270-279): data.username is taken as given
handleLogin(c, u) ==
  Result([conns EXCEPT ![c].playerId = u], games, handoffs, accepted,
         Send(NoOut, c, [type |-> "LOGIN_SUCCESS", playerId |-> u]), <<>>)

\* a game as stored by handleCreateGame (lines 293-303)
NewGame(gid, pid) ==
  [id |-> gid, white |-> pid, whiteConnected |-> TRUE,
   black |-> NoId, blackConnected |-> FALSE,
   chess |-> NewChess, status |-> "waiting", drawOffer |-> NoId, moves |-> <<>>]

\* games[gameId] is truthy
Exists(g) == g \in DOMAIN games

\* handleCreateGame (lines 281-315); uuidv4() is the next unused id
handleCreateGame(c) ==
  LET pid == conns[c].playerId
      gid == Len(games) + 1
  IN IF pid = NoId
     THEN Rejected(c, "You must log in first")
     ELSE Result([conns EXCEPT ![c].gameId = gid],
                 Append(games, NewGame(gid, pid)),
                 Append(handoffs, 0),
                 Append(accepted, 0),
                 Send(NoOut, c, [type |-> "GAME_CREATED", gameId |-> gid,
                                 color |-> "white", fen |-> NewChess]),
                 <<>>)

\* JoinError without the check that the sender has logged in
JoinErrorNoLogin(pid, g) ==
  IF g \notin DOMAIN games THEN "Game not found"
  ELSE IF games[g].status # "waiting" THEN "Game already in progress"
  ELSE IF games[g].white = pid THEN "You cannot join your own game"
  ELSE ""

\* JoinError without the check against joining one's own game
JoinErrorOwnGameAllowed(pid, g) ==
  IF pid = NoId THEN "You must log in first"
  ELSE IF g \notin DOMAIN games THEN "Game not found"
  ELSE IF games[g].status # "waiting" THEN "Game already in progress"
  ELSE ""

\* JoinError without the check that the game is still waiting
JoinErrorFullGameAllowed(pid, g) ==
  IF pid = NoId THEN "You must log in first"
  ELSE IF g \notin DOMAIN games THEN "Game not found"
  ELSE IF games[g].white = pid THEN "You cannot join your own game"
  ELSE ""

\* the checks of handleJoinGame (lines 318-350): the error the join is
\* answered with, or "" when the join goes through
JoinError(pid, g) ==
  IF pid = NoId THEN "You must log in first"
  ELSE IF ~Exists(g) THEN "Game not found"
  ELSE IF games[g].status # "waiting" THEN "Game already in progress"
  ELSE IF games[g].white = pid THEN "You cannot join your own game"
  ELSE ""

\* the seating of handleJoinGame (lines 353-355)
SeatBlack(game, pid) ==
  [game EXCEPT !.black = pid, !.blackConnected = TRUE, !.status = "playing"]

\* handleJoinGame (lines 317-380); g is data.gameId
handleJoinGame(c, g) ==
  LET pid == conns[c].playerId
      e == JoinError(pid, g)
  IN IF e # ""
     THEN Rejected(c, e)
     ELSE LET game == SeatBlack(games[g], pid)
              o1 == Send(NoOut, c, [type |-> "GAME_JOINED", gameId |-> g,
                                    color |-> "black", opponent |-> game.white,
                                    fen |-> game.chess])
          IN Result([conns EXCEPT ![c].gameId = g],
                    [games EXCEPT ![g] = game],
                    handoffs, accepted,
                    Broadcast(o1, {game.white},
                              [type |-> "OPPONENT_JOINED", gameId |-> g,
                               opponent |-> pid, fen |-> game.chess]),
                    <<>>)

\* case 'JOIN' (lines 223-229): the closure's gameId is set to the frame's
onJoinFrame(c, g) ==
  Result([conns EXCEPT ![c].gameId = g], games, handoffs, accepted, NoOut, <<>>)

\* the guard shared by the in-game handlers:
\* if (!playerId || !gameId || !games[gameId])
InvalidGameState(c) ==
  conns[c].playerId = NoId \/ conns[c].gameId = NoGame \/ ~Exists(conns[c].gameId)

\* recordGameResult(game, result) is called (lines 645-731): one more
\* terminal-result handoff for the game
recordGameResult(h, game, result) == [h EXCEPT ![game.id] = @ + 1]

\* the arguments of a call of recordGameResult
Call(game, result) == [game |-> game.id, result |-> result]

\* NotYourTurn with the second disjunct lost: only white's turn is guarded
NotYourTurnWhiteOnly(game, pid) ==
  Turn(game.chess) = "w" /\ game.white # pid

\* the turn check of handleMakeMove (lines 394-395)
NotYourTurn(game, pid) ==
  LET isWhite == Turn(game.chess) = "w"
  IN (isWhite /\ game.white # pid) \/ (~isWhite /\ game.black # pid)

\* MoveRefused with the check of the engine's answer lost
MoveRefusedNever(chess, m) == FALSE

\* if (!move) (line 411), or chess.move threw (line 464): the rules engine
\* refused the candidate move
MoveRefused(chess, m) == ~IsLegal(chess, m)

\* the message an illegal move is answered with: chess.move returned null
\* (line 414) or threw (line 468), as the installed chess.js does
IllegalMoveError(throws) == IF throws THEN "Error making move" ELSE "Invalid move"

\* PushMove with the push lost
PushMoveLost(moves, m) == moves

\* game.moves.push(move) (line 420)
PushMove(moves, m) == Append(moves, m)

\* MoveResult that gives a checkmate to the side that was mated
MoveResultToMated(chess, isWhite) ==
  IF IsCheckmate(chess) THEN (IF isWhite THEN "black_win" ELSE "white_win")
  ELSE IF IsDraw(chess) THEN "draw"
  ELSE ""

\* the game status check of handleMakeMove (lines 423-432):
\* the result when the move ended the game, "" when it did not
MoveResult(chess, isWhite) ==
  IF IsCheckmate(chess) THEN (IF isWhite THEN "white_win" ELSE "black_win")
  ELSE IF IsDraw(chess) THEN "draw"
  ELSE ""

\* ResetDrawOffer with the reset lost
ResetDrawOfferLost(game) == game

\* game.drawOffer = null after a move (line 454)
ResetDrawOffer(game) == [game EXCEPT !.drawOffer = NoId]

\* handleMakeMove (lines 382-471); m stands for data.from/to/promotion,
\* throws for the way the installed chess.js refuses a move
handleMakeMove(c, m, throws) ==
  LET pid == conns[c].playerId
      gid == conns[c].gameId
  IN IF InvalidGameState(c)
     THEN Rejected(c, "Invalid game state")
     ELSE LET game == games[gid]
              isWhite == Turn(game.chess) = "w"
          IN IF NotYourTurn(game, pid)
             THEN Rejected(c, "Not your turn")
             ELSE IF MoveRefused(game.chess, m)
             THEN Rejected(c, IllegalMoveError(throws))
             ELSE LET chess == ChessMove(game.chess, m)
                      result == MoveResult(chess, isWhite)
                      gameOver == result # ""
                      g1 == [game EXCEPT !.chess = chess,
                                         !.moves = PushMove(@, m),
                                         !.status = IF gameOver THEN "completed" ELSE @]
                      g2 == ResetDrawOffer(g1)
                      moveData == [type |-> "MOVE_MADE", move |-> m, fen |-> chess,
                                   gameOver |-> gameOver, result |-> result]
                  IN Result(conns,
                            [games EXCEPT ![gid] = g2],
                            IF gameOver THEN recordGameResult(handoffs, g1, result)
                                        ELSE handoffs,
                            [accepted EXCEPT ![gid] = @ + 1],
                            Broadcast(NoOut, {g2.white, g2.black}, moveData),
                            IF gameOver THEN <<Call(g1, result)>> ELSE <<>>)

\* case 'MOVE' (lines 234-247): with gameId, from and to all present
\* (complete) the frame is handed on wrapped in a payload, so that
\* handleMakeMove reads data.from and data.to as undefined; otherwise the
\* frame is dropped
onMoveFrame(c, complete, throws) ==
  IF complete
  THEN handleMakeMove(c, "bad", throws)
  ELSE Result(conns, games, handoffs, accepted, NoOut, <<>>)

\* ResignResult with the two outcomes swapped
ResignResultSwapped(game, pid) == IF game.white = pid THEN "white_win" ELSE "black_win"

\* the winner computed by handleResign (line 494)
ResignResult(game, pid) == IF game.white = pid THEN "black_win" ELSE "white_win"

\* the frame handleResign broadcasts (lines 503-510)
ResignNotice(game, result) ==
  [type |-> "GAME_OVER", result |-> result, reason |-> "resignation",
   winner |-> IF result = "white_win" THEN game.white ELSE game.black,
   fen |-> game.chess]

\* handleResign (lines 473-515)
handleResign(c) ==
  LET pid == conns[c].playerId
      gid == conns[c].gameId
  IN IF InvalidGameState(c)
     THEN Rejected(c, "Invalid game state")
     ELSE LET game == games[gid]
              result == ResignResult(game, pid)
              g1 == [game EXCEPT !.status = "completed"]
          IN IF game.white # pid /\ game.black # pid
             THEN Rejected(c, "You are not part of this game")
             ELSE Result(conns,
                         [games EXCEPT ![gid] = g1],
                         recordGameResult(handoffs, g1, result),
                         accepted,
                         Broadcast(NoOut, {g1.white, g1.black},
                                   ResignNotice(g1, result)),
                         <<Call(g1, result)>>)

\* SetDrawOffer that takes a repeated offer of the holder as its withdrawal
SetDrawOfferWithdraws(game, pid) ==
  [game EXCEPT !.drawOffer = IF @ = pid THEN NoId ELSE pid]

\* game.drawOffer = playerId (line 538)
SetDrawOffer(game, pid) == [game EXCEPT !.drawOffer = pid]

\* NotPartOfGame that lets everybody through
NotPartOfGameNever(game, pid) == FALSE

\* if (game.white !== playerId && game.black !== playerId) (line 529)
NotPartOfGame(game, pid) == game.white # pid /\ game.black # pid

\* handleDrawOffer (lines 517-558)
handleDrawOffer(c) ==
  LET pid == conns[c].playerId
      gid == conns[c].gameId
  IN IF InvalidGameState(c)
     THEN Rejected(c, "Invalid game state")
     ELSE LET game == games[gid]
              opponent == IF game.white = pid THEN game.black ELSE game.white
              o1 == Broadcast(NoOut, {opponent},
                              [type |-> "DRAW_OFFERED", offeredBy |-> pid])
          IN IF NotPartOfGame(game, pid)
             THEN Rejected(c, "You are not part of this game")
             ELSE Result(conns,
                         [games EXCEPT ![gid] = SetDrawOffer(game, pid)],
                         handoffs, accepted,
                         Send(o1, c, [type |-> "DRAW_OFFER_SENT"]), <<>>)

\* NoValidOffer without the check against answering one's own offer
NoValidOfferOwnAllowed(game, pid) == game.drawOffer = NoId

\* NoValidOffer without the check that an offer is pending
NoValidOfferNoneAllowed(game, pid) == game.drawOffer = pid

\* the offer check of handleAcceptDraw and handleDeclineDraw
\* (lines 572 and 614): if (!game.drawOffer || game.drawOffer === playerId)
NoValidOffer(game, pid) == game.drawOffer = NoId \/ game.drawOffer = pid

\* handleAcceptDraw (lines 560-600)
handleAcceptDraw(c) ==
  LET pid == conns[c].playerId
      gid == conns[c].gameId
  IN IF InvalidGameState(c)
     THEN Rejected(c, "Invalid game state")
     ELSE LET game == games[gid]
              g1 == [game EXCEPT !.status = "completed"]
          IN IF NoValidOffer(game, pid)
             THEN Rejected(c, "No valid draw offer to accept")
             ELSE Result(conns,
                         [games EXCEPT ![gid] = g1],
                         recordGameResult(handoffs, g1, "draw"),
                         accepted,
                         Broadcast(NoOut, {g1.white, g1.black},
                                   [type |-> "GAME_OVER", result |-> "draw",
                                    reason |-> "agreement", fen |-> g1.chess]),
                         <<Call(g1, "draw")>>)

\* handleDeclineDraw (lines 602-642)
handleDeclineDraw(c) ==
  LET pid == conns[c].playerId
      gid == conns[c].gameId
  IN IF InvalidGameState(c)
     THEN Rejected(c, "Invalid game state")
     ELSE LET game == games[gid]
              offeredBy == game.drawOffer
              o1 == Broadcast(NoOut, {offeredBy},
                              [type |-> "DRAW_DECLINED", declinedBy |-> pid])
          IN IF NoValidOffer(game, pid)
             THEN Rejected(c, "No valid draw offer to decline")
             ELSE Result(conns,
                         [games EXCEPT ![gid].drawOffer = NoId],
                         handoffs, accepted,
                         Send(o1, c, [type |-> "DRAW_DECLINE_SENT"]), <<>>)

\* the frame types of the message switch that act on the sender's game
\* (lines 208-222)
InGameFrameTypes ==
  {"MAKE_MOVE", "RESIGN", "OFFER_DRAW", "ACCEPT_DRAW", "DECLINE_DRAW"}

\* the message switch (lines 208-222) for a frame of type ty whose
\* data.gameId is g: the handler gets data, and none of them reads
\* data.gameId; the game acted on is the closure's gameId
onInGameFrame(c, ty, g, m, throws) ==
  CASE ty = "MAKE_MOVE" -> handleMakeMove(c, m, throws)
    [] ty = "RESIGN" -> handleResign(c)
    [] ty = "OFFER_DRAW" -> handleDrawOffer(c)
    [] ty = "ACCEPT_DRAW" -> handleAcceptDraw(c)
    [] ty = "DECLINE_DRAW" -> handleDeclineDraw(c)

\* ------------------------------------------------------ specifications
\* ws.on('message') (lines 191-254) and ws.on('close'): one inbound frame,
\* or one connection event, with LOGIN names drawn from names and candidate
\* moves from moves
Frames(names, moves) ==
  \/ \E c \in Conns : Connect(c)
  \/ \E c \in Conns : Step(c, "close", onClose(c))
  \/ \E c \in Conns, u \in names : Step(c, "login", handleLogin(c, u))
  \/ \E c \in Conns : Step(c, "create", handleCreateGame(c))
  \/ \E c \in Conns, g \in FrameGameIds : Step(c, "join", handleJoinGame(c, g))
  \/ \E c \in Conns, g \in GameIds : Step(c, "joinframe", onJoinFrame(c, g))
  \/ \E c \in Conns, m \in moves, t \in BOOLEAN :
        Step(c, "move", handleMakeMove(c, m, t))
  \/ \E c \in Conns, b, t \in BOOLEAN :
        Step(c, "moveframe", onMoveFrame(c, b, t))
  \/ \E c \in Conns : Step(c, "resign", handleResign(c))
  \/ \E c \in Conns : Step(c, "offer", handleDrawOffer(c))
  \/ \E c \in Conns : Step(c, "accept", handleAcceptDraw(c))
  \/ \E c \in Conns : Step(c, "decline", handleDeclineDraw(c))

\* two players and every kind of move
Next == Frames(Usernames, Moves)

Spec == Init /\ [][Next]_vars

\* three players, so that two of them can compete for the second seat, and
\* moves that do not end the game
NextJoin == Frames(MoreUsernames, QuietMoves)

SpecJoin == Init /\ [][NextJoin]_vars

\* ------------------------------------------------- recordGameResult
\* the statements of recordGameResult (lines 645-731), each a pool.query
\* the function awaits, and the ways it ends
Statements ==
  <<"whiteQuery", "blackQuery", "BEGIN", "INSERT", "UPDATE white",
    "UPDATE black", "COMMIT">>

Finished == {"recorded", "skipped", "logged", "rejected"}

\* recordGameResult(game, result) is called: game.white and game.black are
\* the usernames it looks up
NewRec(call) ==
  [game |-> call.game, result |-> call.result,
   white |-> games[call.game].white, black |-> games[call.game].black,
   pc |-> "whiteQuery"]

\* Registered that looks at the white player only
RegisteredWhiteOnly(rec) == rec.white \in users

\* both SELECTs found a row (line 659); game.black is null for a game
\* nobody joined, and no username is null
Registered(rec) == rec.white \in users /\ rec.black \in users

\* the writes of recording i: the matches row and the two ratings
Writes(i) == {[rec |-> i, what |-> w] : w \in {"match", "white", "black"}}

\* the statement after st
After(st) ==
  LET n == CHOOSE j \in DOMAIN Statements : Statements[j] = st
  IN IF n < Len(Statements) THEN Statements[n + 1] ELSE "recorded"

\* what a statement that succeeds does to client k of the pool: BEGIN
\* opens a transaction on it, a write goes to the transaction the client
\* is in or is committed at once, COMMIT and ROLLBACK end the transaction
\* the client is in
OnClient(k, st, i) ==
  LET cl == pool[k]
      w == [rec |-> i, what |-> IF st = "INSERT" THEN "match"
                                ELSE IF st = "UPDATE white" THEN "white"
                                ELSE "black"]
  IN CASE st = "BEGIN" -> [pool EXCEPT ![k].inTxn = TRUE]
       [] st \in {"INSERT", "UPDATE white", "UPDATE black"} ->
            IF cl.inTxn THEN [pool EXCEPT ![k].pending = @ \cup {w}] ELSE pool
       [] st \in {"COMMIT", "ROLLBACK"} ->
            [pool EXCEPT ![k] = [inTxn |-> FALSE, pending |-> {}]]
       [] OTHER -> pool

\* what it does to the committed data
Committed(k, st, i) ==
  LET cl == pool[k]
      w == [rec |-> i, what |-> IF st = "INSERT" THEN "match"
                                ELSE IF st = "UPDATE white" THEN "white"
                                ELSE "black"]
  IN CASE st \in {"INSERT", "UPDATE white", "UPDATE black"} ->
            IF cl.inTxn THEN db ELSE db \cup {w}
       [] st = "COMMIT" -> db \cup cl.pending
       [] OTHER -> db

\* the process exits (an unhandled rejection, Node 15 and later): the
\* registry and the connections are gone, open transactions are lost
Exit ==
  /\ down' = TRUE
  /\ conns' = [c \in Conns |-> [open |-> FALSE, playerId |-> NoId, gameId |-> NoGame]]
  /\ games' = <<>>
  /\ pool' = [k \in PoolClients |-> [inTxn |-> FALSE, pending |-> {}]]
  /\ last' = "exit"
  /\ UNCHANGED <<handoffs, accepted, users, db>>

\* recording i resumes after its pending pool.query, which ran on client
\* k of the pool (whichever was idle: the HTTP routes and the other
\* recordings use the same pool) and succeeded (ok) or was rejected.
\* A rejection is caught (line 727) and answered with a ROLLBACK; a
\* rejected ROLLBACK leaves the promise of recordGameResult rejected with
\* nobody to handle it, and then the process exits or, on an old Node or
\* with --unhandled-rejections=warn, goes on (exits)
Resume(i, k, ok, exits) ==
  LET rec == recs[i]
      st == rec.pc
  IN /\ ~down
     /\ st \notin Finished
     /\ UNCHANGED wsVars
     /\ UNCHANGED rtVars
     /\ IF ok
        THEN /\ recs' = [recs EXCEPT ![i].pc =
                          IF st = "ROLLBACK" THEN "logged"
                          ELSE IF st = "blackQuery" /\ ~Registered(rec) THEN "skipped"
                          ELSE After(st)]
             /\ pool' = OnClient(k, st, i)
             /\ db' = Committed(k, st, i)
             /\ UNCHANGED <<conns, games, handoffs, accepted, last, users, down>>
        ELSE IF st # "ROLLBACK"
        THEN /\ recs' = [recs EXCEPT ![i].pc = "ROLLBACK"]
             /\ UNCHANGED <<conns, games, handoffs, accepted, last, users, db, pool, down>>
        ELSE /\ recs' = [recs EXCEPT ![i].pc = "rejected"]
             /\ IF exits THEN Exit
                ELSE UNCHANGED <<conns, games, handoffs, accepted, last, users, db, pool, down>>

\* the frame op of connection c is processed with result r, and the calls
\* of recordGameResult it made have run up to their first await; the calls
\* beyond RecIds run too, but their statements are not followed
StepRecord(c, op, r) ==
  /\ ~down
  /\ Install(c, op, r)
  /\ recs' = IF Len(recs) + Len(r.recorded) <= Cardinality(RecIds)
             THEN recs \o [n \in DOMAIN r.recorded |-> NewRec(r.recorded[n])]
             ELSE recs
  /\ UNCHANGED <<users, db, pool, down>>
  /\ UNCHANGED wsVars
  /\ UNCHANGED rtVars

\* the frames that start and end a game, and the recordings statement by
\* statement
NextRecord ==
  \/ \E c \in Conns : ~down /\ Connect(c)
  \/ \E c \in Conns, u \in Usernames : StepRecord(c, "login", handleLogin(c, u))
  \/ \E c \in Conns : StepRecord(c, "create", handleCreateGame(c))
  \/ \E c \in Conns, g \in GameIds : StepRecord(c, "join", handleJoinGame(c, g))
  \/ \E c \in Conns : StepRecord(c, "resign", handleResign(c))
  \/ \E c \in Conns : StepRecord(c, "offer", handleDrawOffer(c))
  \/ \E c \in Conns : StepRecord(c, "accept", handleAcceptDraw(c))
  \/ \E i \in RecIds, k \in PoolClients, ok, exits \in BOOLEAN :
        i \in DOMAIN recs /\ Resume(i, k, ok, exits)

\* the users table holds both players, or one of them plays as a guest
InitRecord == Started /\ users \in {Usernames, {"alice"}}

SpecRecord == InitRecord /\ [][NextRecord]_vars

\* ------------------------------------------------------------ server.js
\* what a handler of server.js leaves: sockets, games and userSockets, the
\* frames sent to each socket (a set: the order plays no part), and whether
\* it threw
WsResult(ss, gs, us, o) ==
  [sockets |-> ss, games |-> gs, userSockets |-> us, out |-> o, thrown |-> FALSE]

WsNoOut == [s \in Sockets |-> {}]

\* the handler returns with nothing done
WsIgnored == WsResult(sockets, wsGames, userSockets, WsNoOut)

\* the handler throws: no try block is around it
WsThrown == [WsIgnored EXCEPT !.thrown = TRUE]

\* sendJSON (lines 56-60): sent when the socket is open
sendJSON(o, ss, s, f) ==
  IF s # NoSocket /\ ss[s].state = "open" THEN [o EXCEPT ![s] = @ \cup {f}] ELSE o

WsErr(msg) == [type |-> "ERROR", message |-> msg]

\* wss.on("connection") (lines 74-88)
wsConnection(s) ==
  WsResult([sockets EXCEPT ![s] = [@ EXCEPT !.state = "open", !.isAlive = TRUE]],
           wsGames, userSockets,
           [WsNoOut EXCEPT ![s] = {[type |-> "CONNECTED"]}])

\* const remainingSocket = isCreator ? game.opponentSocket : game.creatorSocket
remainingSocket(s) ==
  LET game == wsGames[sockets[s].gameId]
  IN IF game.creator = sockets[s].username THEN game.opponentSocket
                                           ELSE game.creatorSocket

\* socket.on("close") (lines 462-495) of every socket of D, which the peer
\* closed or the heartbeat terminated (how)
wsClose(D, how) ==
  LET ss == [s \in Sockets |->
               IF s \in D THEN [sockets[s] EXCEPT !.state = how] ELSE sockets[s]]
      us == [u \in Usernames |->
               IF \E s \in D : sockets[s].username = u THEN NoSocket
               ELSE userSockets[u]]
      InGameOf(g) == {s \in D : sockets[s].gameId = g}
      gs == [g \in DOMAIN wsGames |->
               IF InGameOf(g) # {} /\ wsGames[g].status = "playing"
               THEN [wsGames[g] EXCEPT !.status = "abandoned"] ELSE wsGames[g]]
      o == [d \in Sockets |->
              {[type |-> "OPPONENT_DISCONNECTED", gameId |-> sockets[s].gameId,
                opponent |-> sockets[s].username] :
                 s \in {t \in D : /\ sockets[t].gameId \in DOMAIN wsGames
                                   /\ remainingSocket(t) = d
                                   /\ ss[d].state = "open"}}]
  IN WsResult(ss, gs, us, o)

\* payload.fen of a MAKE_MOVE frame: the position after one half-move,
\* after two, a checkmate, and text that is no FEN
Fens ==
  {[turn |-> "b", ply |-> 1, cls |-> "normal"],
   [turn |-> "w", ply |-> 2, cls |-> "normal"],
   [turn |-> "w", ply |-> 4, cls |-> "mate"],
   [turn |-> "w", ply |-> 0, cls |-> "no FEN"]}

\* new Chess(fen) accepts the text
ValidFen(fen) == fen.cls # "no FEN"

\* game.isGameOver()
IsGameOver(chess) == IsCheckmate(chess) \/ IsDraw(chess)

\* broadcastToGame (lines 63-71): to the open clients with that gameId
broadcastToGame(o, ss, g, f) ==
  [d \in Sockets |->
     IF ss[d].state = "open" /\ ss[d].gameId = g THEN o[d] \cup {f} ELSE o[d]]

\* case "MAKE_MOVE" (lines 231-289): the game is replaced by new Chess(fen)
\* of the frame's fen and the frame's move is broadcast; a fen the
\* constructor refuses is answered with an error
wsMakeMove(s, g, fen) ==
  IF g \notin DOMAIN wsGames
  THEN [WsIgnored EXCEPT !.out[s] = {WsErr("Game not found")}]
  ELSE IF ~ValidFen(fen)
  THEN [WsIgnored EXCEPT !.out[s] = {WsErr("Invalid move")}]
  ELSE LET over == IsGameOver(fen)
           gs == [wsGames EXCEPT ![g] =
                    [@ EXCEPT !.game = fen,
                              !.status = IF over THEN "completed" ELSE @]]
           o1 == broadcastToGame(WsNoOut, sockets, g,
                                 [type |-> "MOVE_MADE", fen |-> fen,
                                  player |-> sockets[s].username])
       IN WsResult(sockets, gs, userSockets,
                   IF over
                   THEN broadcastToGame(o1, sockets, g,
                                        [type |-> "GAME_OVER",
                                         winner |-> sockets[s].username])
                   ELSE o1)

\* the frames a client sends: text that is not JSON, the JSON text null,
\* an object with a type the switch does not know, and LOGIN, CREATE_GAME,
\* JOIN_GAME and MAKE_MOVE
BadFrames ==
  {[kind |-> "not JSON"], [kind |-> "null"], [kind |-> "HELLO"]}

WsFrames ==
  BadFrames
    \cup {[kind |-> "LOGIN", username |-> u] : u \in Usernames}
    \cup {[kind |-> "CREATE_GAME"]}
    \cup {[kind |-> "JOIN_GAME", gameId |-> g] : g \in GameIds}
    \cup {[kind |-> "MAKE_MOVE", gameId |-> g, fen |-> fen] :
             g \in GameIds, fen \in Fens}

\* case "LOGIN" (lines 139-148)
wsLogin(s, u) ==
  WsResult([sockets EXCEPT ![s].username = u], wsGames,
           [userSockets EXCEPT ![u] = s],
           [WsNoOut EXCEPT ![s] = {[type |-> "LOGIN_SUCCESS", username |-> u]}])

\* case "CREATE_GAME" (lines 150-177)
wsCreateGame(s) ==
  LET gameId == Len(wsGames) + 1
  IN WsResult([sockets EXCEPT ![s].gameId = gameId],
              Append(wsGames, [id |-> gameId, creator |-> sockets[s].username,
                               creatorSocket |-> s, opponent |-> NoId,
                               opponentSocket |-> NoSocket, game |-> NewChess,
                               status |-> "waiting"]),
              userSockets,
              [WsNoOut EXCEPT ![s] = {[type |-> "GAME_CREATED", gameId |-> gameId]}])

\* case "JOIN_GAME" (lines 179-229)
wsJoinGame(s, g) ==
  IF g \notin DOMAIN wsGames
  THEN [WsIgnored EXCEPT !.out[s] = {WsErr("Game not found")}]
  ELSE IF wsGames[g].status # "waiting"
  THEN [WsIgnored EXCEPT !.out[s] = {WsErr("Game is already in progress or completed")}]
  ELSE LET ss == [sockets EXCEPT ![s].gameId = g]
           gs == [wsGames EXCEPT ![g] = [@ EXCEPT !.opponent = sockets[s].username,
                                                  !.opponentSocket = s,
                                                  !.status = "playing"]]
           o1 == sendJSON(WsNoOut, ss, s,
                          [type |-> "GAME_JOINED", gameId |-> g,
                           creator |-> wsGames[g].creator])
       IN WsResult(ss, gs, userSockets,
                   sendJSON(o1, ss, wsGames[g].creatorSocket,
                            [type |-> "OPPONENT_JOINED", gameId |-> g,
                             opponent |-> sockets[s].username]))

\* socket.on("message") (lines 90-459): JSON.parse is in a try block that
\* returns on an error; message.t is read outside it, and throws a
\* TypeError when the frame is the JSON text null
wsMessage(s, f) ==
  CASE f.kind = "not JSON" -> WsIgnored
    [] f.kind = "null" -> WsThrown
    [] f.kind = "LOGIN" -> wsLogin(s, f.username)
    [] f.kind = "CREATE_GAME" -> wsCreateGame(s)
    [] f.kind = "JOIN_GAME" -> wsJoinGame(s, f.gameId)
    [] f.kind = "MAKE_MOVE" -> wsMakeMove(s, f.gameId, f.fen)
    [] OTHER -> WsIgnored

\* Dead that no socket satisfies
DeadNever(sock) == FALSE

\* if (!socket.isAlive) return socket.terminate() (line 501)
Dead(sock) == ~sock.isAlive

\* the heartbeat (lines 498-505): the sockets that did not answer the ping
\* of the tick before are terminated, which runs their close handlers; the
\* others are pinged
heartbeat ==
  LET D == {s \in Sockets : sockets[s].state = "open" /\ Dead(sockets[s])}
      r == wsClose(D, "terminated")
  IN [r EXCEPT !.sockets =
        [s \in Sockets |->
           IF r.sockets[s].state = "open"
           THEN [r.sockets[s] EXCEPT !.isAlive = FALSE, !.ping = TRUE]
           ELSE r.sockets[s]]]

\* socket.on("pong") (lines 79-81): the client answered the ping
wsPong(s) ==
  WsResult([sockets EXCEPT ![s] = [@ EXCEPT !.isAlive = TRUE, !.ping = FALSE]],
           wsGames, userSockets, WsNoOut)

\* a handler of server.js ran with result r; an exception it threw is
\* uncaught, and the process exits with its games and connections
WsStep(op, r) ==
  /\ ~crashed
  /\ Len(r.games) <= Cardinality(GameIds)
  /\ IF r.thrown
     THEN /\ crashed' = TRUE
          /\ sockets' = [s \in Sockets |->
                           IF sockets[s].state = "open"
                           THEN [sockets[s] EXCEPT !.state = "closed"]
                           ELSE sockets[s]]
          /\ wsGames' = <<>>
          /\ userSockets' = [u \in Usernames |-> NoSocket]
          /\ last' = "crash"
     ELSE /\ crashed' = FALSE
          /\ sockets' = r.sockets
          /\ wsGames' = r.games
          /\ userSockets' = r.userSockets
          /\ last' = IF r.sockets = sockets /\ r.games = wsGames
                         /\ r.userSockets = userSockets
                      THEN last ELSE op
  /\ UNCHANGED <<conns, games, handoffs, accepted>>
  /\ UNCHANGED recVars
  /\ UNCHANGED rtVars

\* the events of server.js
NextRelay ==
  \/ \E s \in Sockets :
        sockets[s].state = "fresh" /\ WsStep("connection", wsConnection(s))
  \/ \E s \in Sockets :
        sockets[s].state = "open" /\ WsStep("close", wsClose({s}, "closed"))
  \/ \E s \in Sockets, f \in WsFrames :
        sockets[s].state = "open" /\ WsStep(f.kind, wsMessage(s, f))
  \/ \E s \in Sockets :
        sockets[s].state = "open" /\ WsStep("pong", wsPong(s))
  \/ WsStep("tick", heartbeat)

SpecRelay == Init /\ [][NextRelay]_vars

\* ------------------------------------------------------------- routes.js
\* what the refresh routes leave alone
NotTokens ==
  <<conns, games, handoffs, accepted, last, users, db, pool, recs, down,
    sockets, wsGames, userSockets, crashed>>

\* signRefreshToken(user) (auth.js lines 31-37): jwt.sign of { sub } with
\* an expiry; the token is a function of the user and of the second it is
\* signed in (iat), so two tokens of one user signed in the same second
\* are the same text. The refresh routes are followed for one user
signRefreshToken == now

\* a second goes by
ClockTick ==
  /\ now + 1 \in Seconds
  /\ now' = now + 1
  /\ UNCHANGED <<rows, reqs>>
  /\ UNCHANGED NotTokens

\* INSERT INTO refresh_tokens (user_id, token_hash) VALUES (...)
InsertToken(token) == Append(rows, [token |-> token, revoked |-> FALSE])

\* POST /auth/login (lines 80-119) with valid credentials: a token is
\* signed and its hash stored
AuthLogin ==
  /\ Len(rows) < Cardinality(RowIds)
  /\ rows' = InsertToken(signRefreshToken)
  /\ UNCHANGED <<reqs, now>>
  /\ UNCHANGED NotTokens

\* POST /auth/refresh (lines 122-131) arrives with a token the server
\* signed in its cookie: jwt.verify passes and the first query is sent
RefreshArrives(r, token) ==
  /\ reqs[r].pc = "idle"
  /\ \E i \in DOMAIN rows : rows[i].token = token
  /\ reqs' = [reqs EXCEPT ![r] = [@ EXCEPT !.pc = "SELECT token", !.token = token]]
  /\ UNCHANGED <<rows, now>>
  /\ UNCHANGED NotTokens

\* the rows WHERE token_hash = sha256(token) AND revoked_at IS NULL
Unrevoked(token) ==
  {i \in DOMAIN rows : rows[i].token = token /\ ~rows[i].revoked}

\* request r resumes after its pending query (lines 132-168), which
\* succeeded (ok) or was rejected; a rejection is answered with 401
\* (line 165), row is match[0]
RefreshResumes(r, ok, row) ==
  LET req == reqs[r]
  IN /\ req.pc \in {"SELECT token", "SELECT user", "UPDATE", "INSERT"}
     /\ UNCHANGED now
     /\ UNCHANGED NotTokens
     /\ IF ~ok
        THEN reqs' = [reqs EXCEPT ![r].pc = "refused"] /\ UNCHANGED rows
        ELSE CASE req.pc = "SELECT token" ->
                    /\ UNCHANGED rows
                    /\ IF Unrevoked(req.token) = {}
                       THEN reqs' = [reqs EXCEPT ![r].pc = "refused"]
                       ELSE /\ row \in Unrevoked(req.token)
                            /\ reqs' = [reqs EXCEPT ![r] =
                                          [@ EXCEPT !.pc = "SELECT user", !.match = row]]
               [] req.pc = "SELECT user" ->
                    /\ UNCHANGED rows
                    /\ reqs' = [reqs EXCEPT ![r] =
                                  [@ EXCEPT !.pc = "UPDATE", !.fresh = signRefreshToken]]
               [] req.pc = "UPDATE" ->
                    /\ rows' = [rows EXCEPT ![req.match].revoked = TRUE]
                    /\ reqs' = [reqs EXCEPT ![r].pc = "INSERT"]
               [] req.pc = "INSERT" ->
                    /\ Len(rows) < Cardinality(RowIds)
                    /\ rows' = InsertToken(req.fresh)
                    /\ reqs' = [reqs EXCEPT ![r].pc = "done"]

\* the events of the refresh-token routes
NextRefresh ==
  \/ ClockTick
  \/ AuthLogin
  \/ \E r \in ReqIds, token \in Seconds : RefreshArrives(r, token)
  \/ \E r \in ReqIds, ok \in BOOLEAN, row \in RowIds : RefreshResumes(r, ok, row)

SpecRefresh == Init /\ [][NextRefresh]_vars

\* the server never stops while an event can happen: frames and connection
\* events keep arriving and the event loop processes each of them; the
\* WebSocket server of auth.js sets no timer of its own
SpecLive == Init /\ [][Next]_vars /\ WF_vars(Next)

\* ---------------------------------------------------------------- claims
\* connection c is open, logged in, and its closure names a game of the
\* registry: the game its in-game frames act on
InGame(c) ==
  conns[c].open /\ conns[c].playerId # NoId /\ conns[c].gameId \in DOMAIN games

GameOf(c) == games[conns[c].gameId]

\* the identity of c holds the seat whose turn it is / is not
SeatToMove(c) ==
  IF GameOf(c).chess.turn = "w" THEN conns[c].playerId = GameOf(c).white
                                ELSE conns[c].playerId = GameOf(c).black

SeatNotToMove(c) ==
  IF GameOf(c).chess.turn = "w" THEN conns[c].playerId = GameOf(c).black
                                ELSE conns[c].playerId = GameOf(c).white

\* what the server answers to each MAKE_MOVE and MOVE frame c can send
MoveResults(c) ==
  {handleMakeMove(c, m, t) : m \in Moves, t \in BOOLEAN}
    \cup {onMoveFrame(c, b, t) : b, t \in BOOLEAN}

\* the same for the frames that carry a move: every MAKE_MOVE frame, and
\* the MOVE frames with gameId, from and to
SentMoveResults(c) ==
  {handleMakeMove(c, m, t) : m \in Moves, t \in BOOLEAN}
    \cup {onMoveFrame(c, TRUE, t) : t \in BOOLEAN}

\* what the server answers to each in-game frame c can send
InGameResults(c) ==
  MoveResults(c) \cup {handleResign(c), handleDrawOffer(c),
                       handleAcceptDraw(c), handleDeclineDraw(c)}

\* C1: recordGameResult is called at most once for a session, whatever
\* sequence of move, resign, accept-draw and disconnect events it sees.
\* The code contradicts it: no handler looks at game.status before it
\* records, so a repeated RESIGN records again.
HandoffAtMostOnce == \A g \in DOMAIN handoffs : handoffs[g] <= 1

\* C2: once a session is 'completed', every further move, resign,
\* offer-draw, accept-draw and decline-draw of it is answered with an error
\* frame to the sender and leaves the session as it is.
\* The code contradicts it: only JOIN_GAME looks at game.status.
TerminalIsAbsorbing ==
  \A c \in Conns :
    (InGame(c) /\ GameOf(c).status = "completed")
      => \A r \in InGameResults(c) : HasError(r, c) /\ r.games = games

\* C3: a move sent by the identity on the seat that is not to move is
\* answered with the error 'Not your turn' and changes nothing.
OutOfTurnMoveRejected ==
  \A c \in Conns :
    (InGame(c) /\ SeatNotToMove(c))
      => \A r \in SentMoveResults(c) :
           /\ r.out[c] = <<Err("Not your turn")>>
           /\ \A d \in Conns \ {c} : r.out[d] = <<>>
           /\ NoChange(r)

\* C3 witness: after the first move of a game in progress its white player,
\* now the seat not to move, is connected
OutOfTurnMoveWitness ==
  \E c \in Conns :
    /\ InGame(c) /\ SeatNotToMove(c)
    /\ GameOf(c).status = "playing" /\ Len(GameOf(c).moves) = 1
    /\ last = "move"

\* C4: the length of game.moves is the number of moves accepted, an
\* accepted move adds exactly one to it and a rejected one nothing, and the
\* move accepted at an even length is white's, at an odd length black's.
PlyCountsAcceptedMoves ==
  /\ \A g \in DOMAIN games :
       /\ Len(games[g].moves) = accepted[g]
       /\ (Turn(games[g].chess) = "w") <=> (Len(games[g].moves) % 2 = 0)
  /\ \A c \in Conns : \A r \in MoveResults(c) : \A g \in DOMAIN games :
       \/ /\ r.accepted[g] = accepted[g]
          /\ r.games[g].moves = games[g].moves
       \/ /\ r.accepted[g] = accepted[g] + 1
          /\ Len(r.games[g].moves) = Len(games[g].moves) + 1
          /\ g = conns[c].gameId
          /\ conns[c].playerId = IF Len(games[g].moves) % 2 = 0
                                 THEN games[g].white ELSE games[g].black

\* C4 witness: white and then black have had a move accepted
PlyCountsWitness ==
  \E g \in DOMAIN games :
    Len(games[g].moves) = 2 /\ accepted[g] = 2 /\ last = "move"

\* C5: a move the rules engine refuses is answered with an error frame to
\* the sender, nothing is sent to anybody else, and the session (position,
\* ply history, pending offer, status) is as it was.
IllegalMoveRejected ==
  \A c \in Conns : \A m \in Moves : \A t \in BOOLEAN :
    (InGame(c) /\ SeatToMove(c) /\ ~IsLegal(GameOf(c).chess, m))
      => LET r == handleMakeMove(c, m, t)
         IN /\ r.out[c] \in {<<Err("Invalid move")>>, <<Err("Error making move")>>}
            /\ \A d \in Conns \ {c} : r.out[d] = <<>>
            /\ NoChange(r)

\* C5 witness: the seat to move of a game in progress, with a draw offer
\* pending and a move played, whose illegal move is answered with an error
IllegalMoveWitness ==
  \E c \in Conns :
    /\ InGame(c) /\ SeatToMove(c)
    /\ GameOf(c).status = "playing" /\ Len(GameOf(c).moves) = 1
    /\ GameOf(c).drawOffer # NoId
    /\ HasError(handleMakeMove(c, "bad", TRUE), c)

\* C6: an accepted move leaves no draw offer pending, and while no offer is
\* pending (so also after such a move, until a new offer) an accept-draw
\* and a decline-draw are answered with an error and change nothing.
MoveClearsDrawOffer ==
  \A c \in Conns :
    InGame(c) =>
      /\ \A r \in MoveResults(c) :
           r.accepted # accepted => r.games[conns[c].gameId].drawOffer = NoId
      /\ GameOf(c).drawOffer = NoId =>
           \A r \in {handleAcceptDraw(c), handleDeclineDraw(c)} :
             /\ HasError(r, c)
             /\ NoChange(r)
             /\ r.recorded = <<>>

\* C6 witness: in a game in progress the seat to move has a draw offer of
\* its opponent to answer, which it could accept, and its move is accepted
MoveClearsDrawOfferWitness ==
  \E c \in Conns :
    /\ InGame(c) /\ SeatToMove(c)
    /\ GameOf(c).status = "playing"
    /\ GameOf(c).drawOffer \notin {NoId, conns[c].playerId}
    /\ ~HasError(handleAcceptDraw(c), c)
    /\ handleMakeMove(c, "quiet", FALSE).accepted # accepted

\* C7: JOIN_GAME seats the sender as black and moves the game from
\* 'waiting' to 'playing' exactly when the game exists, is 'waiting' and is
\* not the sender's own; every other join is answered with an error frame
\* and changes no game.
JoinExactlyWhenOpen ==
  \A c \in Conns : \A g \in FrameGameIds :
    conns[c].open =>
      LET pid == conns[c].playerId
          r == handleJoinGame(c, g)
          open == /\ pid # NoId
                  /\ g \in DOMAIN games
                  /\ games[g].status = "waiting"
                  /\ games[g].white # pid
      IN IF open
         THEN /\ r.games[g] = [games[g] EXCEPT !.black = pid,
                                               !.blackConnected = TRUE,
                                               !.status = "playing"]
              /\ \A h \in DOMAIN games \ {g} : r.games[h] = games[h]
              /\ ~HasError(r, c) /\ HasFrame(r, c, "GAME_JOINED")
         ELSE /\ r.out[c] \in {<<Err(e)>> : e \in {"You must log in first",
                                 "Game not found", "Game already in progress",
                                 "You cannot join your own game"}}
              /\ NoChange(r)

\* C7 witness: the creator of a waiting game is connected (its join would
\* be refused) and so is another player (whose join would be accepted)
JoinWitness ==
  \E c, d \in Conns : \E g \in DOMAIN games :
    /\ conns[c].open /\ conns[c].playerId = games[g].white
    /\ conns[d].open /\ conns[d].playerId \notin {NoId, games[g].white}
    /\ games[g].status = "waiting"
    /\ HasError(handleJoinGame(c, g), c)
    /\ HasFrame(handleJoinGame(d, g), d, "GAME_JOINED")

\* C8: of two players who send JOIN_GAME for the same waiting game, the
\* first to be processed is seated and the other is answered with an
\* error: a waiting game has its second seat empty, any player but the
\* creator is then seated by a join, and once the seat is taken every join
\* is refused and leaves the seat to its holder.
JoinRaceSeatsOne ==
  \A g \in DOMAIN games :
    /\ games[g].white # NoId /\ games[g].black # games[g].white
    /\ games[g].status = "waiting" => games[g].black = NoId
    /\ \A c \in Conns :
         (conns[c].open /\ conns[c].playerId \notin {NoId, games[g].white})
           => LET r == handleJoinGame(c, g)
              IN IF games[g].black = NoId /\ games[g].status = "waiting"
                 THEN r.games[g].black = conns[c].playerId /\ ~HasError(r, c)
                 ELSE HasError(r, c) /\ r.games = games

\* C8 witness: the second seat was taken by a join, and a third player,
\* neither the creator nor the one seated, is connected and joins too late
JoinRaceWitness ==
  \E c \in Conns : \E g \in DOMAIN games :
    /\ games[g].black # NoId
    /\ conns[c].open /\ conns[c].playerId \notin {NoId, games[g].white, games[g].black}
    /\ handleJoinGame(c, g).out[c] = <<Err("Game already in progress")>>

\* C9: a seat that holds a player identity holds the same identity after
\* every step, and the game stays in the registry.
SeatsNeverChange ==
  [][\A g \in DOMAIN games :
       /\ g \in DOMAIN games'
       /\ games[g].white # NoId => games'[g].white = games[g].white
       /\ games[g].black # NoId => games'[g].black = games[g].black]_vars

\* C9 witness: both seats are held, a move was played, and the connection
\* that created or joined the game has since closed
SeatsNeverChangeWitness ==
  \E g \in DOMAIN games :
    /\ games[g].white # NoId /\ games[g].black # NoId
    /\ Len(games[g].moves) >= 1
    /\ ~games[g].whiteConnected
    /\ last = "close"

\* C10: a RESIGN of a seated player in a game in progress completes the
\* game, hands the result to recordGameResult once with the other seat as
\* winner, and sends every connection of the two players the GAME_OVER
\* frame with reason 'resignation' that names the other seat's player as
\* winner.
ResignGivesWinToOther ==
  \A c \in Conns :
    (/\ InGame(c)
     /\ GameOf(c).status = "playing"
     /\ conns[c].playerId \in {GameOf(c).white, GameOf(c).black})
      => LET game == GameOf(c)
             byWhite == conns[c].playerId = game.white
             result == IF byWhite THEN "black_win" ELSE "white_win"
             winner == IF byWhite THEN game.black ELSE game.white
             r == handleResign(c)
         IN /\ r.games[game.id] = [game EXCEPT !.status = "completed"]
            /\ r.recorded = <<[game |-> game.id, result |-> result]>>
            /\ r.handoffs[game.id] = handoffs[game.id] + 1
            /\ \A d \in Conns :
                 IF conns[d].open /\ conns[d].playerId \in {game.white, game.black}
                 THEN r.out[d] = <<[type |-> "GAME_OVER", result |-> result,
                                    reason |-> "resignation", winner |-> winner,
                                    fen |-> game.chess]>>
                 ELSE r.out[d] = <<>>

\* C10 witness: the resignation was the first end of a game with both
\* seats held, and both players are connected
ResignWitness ==
  \E g \in DOMAIN games :
    /\ last = "resign"
    /\ games[g].status = "completed" /\ handoffs[g] = 1
    /\ games[g].black # NoId
    /\ \E c, d \in Conns : /\ conns[c].open /\ conns[c].playerId = games[g].white
                           /\ conns[d].open /\ conns[d].playerId = games[g].black

\* connection c is in a game, on one of its seats, and the game holds a
\* draw offer of somebody else
CanAnswerOffer(c) ==
  /\ InGame(c)
  /\ conns[c].playerId \in {GameOf(c).white, GameOf(c).black}
  /\ GameOf(c).drawOffer \notin {NoId, conns[c].playerId}

\* the frames r sends are: f to every connection of the two players of
\* game, nothing to anybody else
SentToPlayers(r, game, f) ==
  \A d \in Conns :
    r.out[d] = IF conns[d].open /\ conns[d].playerId \in {game.white, game.black}
               THEN <<f>> ELSE <<>>

\* C11: while a draw offer is pending in a game in progress, ACCEPT_DRAW of
\* the seated player who did not make the offer completes the game as a
\* draw by agreement (recorded once, both players told); ACCEPT_DRAW of the
\* offer's holder, or with no offer pending, is answered with an error and
\* changes nothing.
AcceptDrawEndsInDraw ==
  \A c \in Conns :
    InGame(c) =>
      LET game == GameOf(c)
          r == handleAcceptDraw(c)
      IN /\ (CanAnswerOffer(c) /\ game.status = "playing") =>
              /\ r.games[game.id] = [game EXCEPT !.status = "completed"]
              /\ r.recorded = <<[game |-> game.id, result |-> "draw"]>>
              /\ r.handoffs[game.id] = handoffs[game.id] + 1
              /\ SentToPlayers(r, game, [type |-> "GAME_OVER", result |-> "draw",
                                         reason |-> "agreement", fen |-> game.chess])
         /\ game.drawOffer \in {NoId, conns[c].playerId} =>
              /\ r.out = Send(NoOut, c, Err("No valid draw offer to accept"))
              /\ NoChange(r)
              /\ r.recorded = <<>>

\* C11 witness: in a game in progress both players are connected, one
\* holds a draw offer, whose accept is refused, and the other's is not
AcceptDrawWitness ==
  \E c, d \in Conns :
    /\ CanAnswerOffer(c) /\ GameOf(c).status = "playing"
    /\ InGame(d) /\ conns[d].gameId = conns[c].gameId
    /\ GameOf(c).drawOffer = conns[d].playerId
    /\ HasFrame(handleAcceptDraw(c), c, "GAME_OVER")
    /\ HasError(handleAcceptDraw(d), d)

\* C12: DECLINE_DRAW of the seated player who did not make the pending
\* offer clears the offer, tells the connections of the offerer, and leaves
\* status, position and ply history as they are; DECLINE_DRAW of the
\* offer's holder, or with no offer pending, is answered with an error and
\* changes nothing.
DeclineDrawClearsOffer ==
  \A c \in Conns :
    InGame(c) =>
      LET game == GameOf(c)
          pid == conns[c].playerId
          r == handleDeclineDraw(c)
      IN /\ CanAnswerOffer(c) =>
              /\ r.games = [games EXCEPT ![game.id].drawOffer = NoId]
              /\ r.conns = conns /\ r.handoffs = handoffs /\ r.accepted = accepted
              /\ r.recorded = <<>>
              /\ \A d \in Conns :
                   r.out[d] =
                     IF d = c THEN <<[type |-> "DRAW_DECLINE_SENT"]>>
                     ELSE IF conns[d].open /\ conns[d].playerId = game.drawOffer
                     THEN <<[type |-> "DRAW_DECLINED", declinedBy |-> pid]>>
                     ELSE <<>>
         /\ game.drawOffer \in {NoId, pid} =>
              /\ r.out = Send(NoOut, c, Err("No valid draw offer to decline"))
              /\ NoChange(r)
              /\ r.recorded = <<>>

\* C12 witness: after a move of a game in progress the player to move holds
\* a draw offer and the opponent, connected, declines it
DeclineDrawWitness ==
  \E c, d \in Conns :
    /\ CanAnswerOffer(c) /\ GameOf(c).status = "playing"
    /\ Len(GameOf(c).moves) >= 1
    /\ InGame(d) /\ conns[d].gameId = conns[c].gameId
    /\ GameOf(c).drawOffer = conns[d].playerId
    /\ HasFrame(handleDeclineDraw(c), d, "DRAW_DECLINED")
    /\ HasError(handleDeclineDraw(d), d)

\* C13: OFFER_DRAW of a seated player makes that player the holder of the
\* game's one pending offer, tells the connections of the other seat,
\* confirms to the sender and changes nothing else; repeated while the
\* sender's offer is pending it is answered the same way, without an error,
\* and leaves the state exactly as it is.
OfferDrawIsIdempotent ==
  \A c \in Conns :
    (InGame(c) /\ conns[c].playerId \in {GameOf(c).white, GameOf(c).black})
      => LET game == GameOf(c)
             pid == conns[c].playerId
             other == IF game.white = pid THEN game.black ELSE game.white
             r == handleDrawOffer(c)
         IN /\ r.games = [games EXCEPT ![game.id].drawOffer = pid]
            /\ r.conns = conns /\ r.handoffs = handoffs /\ r.accepted = accepted
            /\ r.recorded = <<>>
            /\ \A d \in Conns :
                 r.out[d] =
                   (IF conns[d].open /\ other # NoId /\ conns[d].playerId = other
                    THEN <<[type |-> "DRAW_OFFERED", offeredBy |-> pid]>> ELSE <<>>)
                   \o (IF d = c THEN <<[type |-> "DRAW_OFFER_SENT"]>> ELSE <<>>)
            /\ game.drawOffer = pid => NoChange(r)

\* C13 witness: a player of a game in progress has just offered a draw,
\* the opponent is connected, and the player offers again
OfferDrawWitness ==
  \E c, d \in Conns :
    /\ InGame(c) /\ GameOf(c).status = "playing"
    /\ last = "offer"
    /\ GameOf(c).drawOffer = conns[c].playerId
    /\ conns[d].open /\ conns[d].playerId \in {GameOf(c).white, GameOf(c).black}
    /\ conns[d].playerId # conns[c].playerId
    /\ HasFrame(handleDrawOffer(c), d, "DRAW_OFFERED")
    /\ HasFrame(handleDrawOffer(c), c, "DRAW_OFFER_SENT")

\* C14: in a game in progress, an accepted move into checkmate completes
\* the game in the same step with the win of the seat that moved, one into
\* stalemate or a rule draw completes it as a draw, each recorded once and
\* announced in the MOVE_MADE frame; after any other accepted move the game
\* is still in progress and nothing is recorded.
TerminalMoveEndsGame ==
  \A c \in Conns : \A m \in LegalMoves : \A t \in BOOLEAN :
    (/\ InGame(c) /\ SeatToMove(c)
     /\ GameOf(c).status = "playing"
     /\ IsLegal(GameOf(c).chess, m))
      => LET game == GameOf(c)
             r == handleMakeMove(c, m, t)
             after == r.games[game.id]
             outcome == IF m = "mate"
                        THEN (IF conns[c].playerId = game.white
                              THEN "white_win" ELSE "black_win")
                        ELSE IF m \in {"stale", "rdraw"} THEN "draw"
                        ELSE ""
         IN /\ after.chess = ChessMove(game.chess, m)
            /\ after.status = IF outcome = "" THEN "playing" ELSE "completed"
            /\ r.recorded = IF outcome = "" THEN <<>>
                            ELSE <<[game |-> game.id, result |-> outcome]>>
            /\ r.handoffs[game.id] = handoffs[game.id] + Len(r.recorded)
            /\ SentToPlayers(r, game,
                 [type |-> "MOVE_MADE", move |-> m, fen |-> after.chess,
                  gameOver |-> outcome # "", result |-> outcome])

\* C14 witness: black, to move after three half-moves of a game in
\* progress, mates, and the game is recorded as black's win
TerminalMoveWitness ==
  \E c \in Conns :
    /\ InGame(c) /\ SeatToMove(c)
    /\ GameOf(c).status = "playing"
    /\ conns[c].playerId = GameOf(c).black
    /\ Len(GameOf(c).moves) = Len(FoolsMate) - 1
    /\ handleMakeMove(c, "mate", FALSE).recorded
         = <<[game |-> GameOf(c).id, result |-> "black_win"]>>
    /\ handleMakeMove(c, "stale", FALSE).recorded
         = <<[game |-> GameOf(c).id, result |-> "draw"]>>

\* C15: a move sent for a game that is still 'waiting' for its second
\* player is answered with an error and changes no game.
\* The code contradicts it: handleMakeMove does not read game.status, and
\* the creator holds the seat to move of the new game.
MoveNeedsActiveGame ==
  \A c \in Conns :
    (InGame(c) /\ GameOf(c).status = "waiting")
      => \A r \in SentMoveResults(c) : HasError(r, c) /\ r.games = games

\* C16: ACCEPT_DRAW and DECLINE_DRAW of a connection whose identity is on
\* neither seat of the game its closure names are answered with an error
\* and change nothing.
\* The code contradicts it: handleAcceptDraw and handleDeclineDraw have no
\* membership check, and a JOIN frame binds any connection to any game id.
OutsiderCannotAnswerOffer ==
  \A c \in Conns :
    (InGame(c) /\ conns[c].playerId \notin {GameOf(c).white, GameOf(c).black})
      => \A r \in {handleAcceptDraw(c), handleDeclineDraw(c)} :
           HasError(r, c) /\ NoChange(r) /\ r.recorded = <<>>

\* C17: an in-game frame whose gameId names no game of the registry is
\* answered with an error and changes no game, the sender's own included.
\* The code contradicts it: no handler reads the frame's gameId.
UnknownGameIdRejected ==
  \A c \in Conns : \A g \in FrameGameIds \ DOMAIN games :
    conns[c].open =>
      \A ty \in InGameFrameTypes : \A m \in Moves : \A t \in BOOLEAN :
        LET r == onInGameFrame(c, ty, g, m, t)
        IN HasError(r, c) /\ NoChange(r) /\ r.recorded = <<>>

\* C18: when the creator's connection closes while the game is 'waiting',
\* the game is removed from the registry (and so can no longer be joined).
\* The code contradicts it: the close handler only sets whiteConnected to
\* false; the game stays in the registry, 'waiting' and joinable.
OpenGameTornDownOnClose ==
  \A c \in Conns :
    (/\ InGame(c)
     /\ GameOf(c).status = "waiting"
     /\ conns[c].playerId = GameOf(c).white)
      => LET r == onClose(c)
         IN ~(/\ conns[c].gameId \in DOMAIN r.games
              /\ r.games[conns[c].gameId].status = "waiting")

\* C19: when the connection of a seated player closes while the game is in
\* progress, the game is suspended (it leaves 'playing', or the seat is
\* marked as disconnected) and every connection of the other player is sent
\* an opponent-disconnected frame.
\* The code contradicts it: the close handler sends nothing.
CloseSuspendsAndNotifies ==
  \A c \in Conns :
    (/\ InGame(c)
     /\ GameOf(c).status = "playing"
     /\ conns[c].playerId \in {GameOf(c).white, GameOf(c).black})
      => LET game == GameOf(c)
             r == onClose(c)
             after == r.games[game.id]
             other == IF conns[c].playerId = game.white THEN game.black
                                                        ELSE game.white
         IN /\ \/ after.status # "playing"
               \/ ~after.whiteConnected
               \/ ~after.blackConnected
            /\ \A d \in Conns \ {c} :
                 (conns[d].open /\ conns[d].playerId = other)
                   => HasFrame(r, d, "OPPONENT_DISCONNECTED")

\* the players of game g that no open connection bound to g is logged in as
Gone(g) ==
  {p \in {games[g].white, games[g].black} \ {NoId} :
     ~ \E c \in Conns : /\ conns[c].open
                        /\ conns[c].playerId = p
                        /\ conns[c].gameId = g}

\* C20: a game in progress that a seated player disconnected from is
\* eventually completed, unless the player comes back.
\* The code contradicts it: nothing times a disconnected player out, the
\* game stays 'playing' for as long as nobody ends it.
DisconnectTimesOut ==
  \A g \in GameIds :
    (/\ g \in DOMAIN games
     /\ games[g].status = "playing"
     /\ ~games[g].whiteConnected \/ ~games[g].blackConnected
     /\ Gone(g) # {})
      ~> (g \in DOMAIN games /\ (games[g].status = "completed" \/ Gone(g) = {}))

\* connection c is logged in as a player of game g whose seat the close
\* handler marked as disconnected, while g is in progress
LostSeat(c, g) ==
  /\ conns[c].open /\ conns[c].playerId # NoId
  /\ g \in DOMAIN games /\ games[g].status = "playing"
  /\ \/ conns[c].playerId = games[g].white /\ ~games[g].whiteConnected
     \/ conns[c].playerId = games[g].black /\ ~games[g].blackConnected

\* C21: when a player whose connection was lost binds a new connection to
\* the game (LOGIN, then a JOIN frame naming it), the game is in progress
\* with the player's seat marked connected again, position and ply history
\* are as before, and nothing was recorded.
\* The code contradicts it: nothing sets whiteConnected or blackConnected
\* back to true.
ReconnectRestoresSeat ==
  \A c \in Conns : \A g \in GameIds :
    LostSeat(c, g)
      => LET r == onJoinFrame(c, g)
             after == r.games[g]
         IN /\ r.conns[c].gameId = g
            /\ after.status = "playing"
            /\ after.chess = games[g].chess /\ after.moves = games[g].moves
            /\ r.recorded = <<>> /\ r.handoffs = handoffs
            /\ conns[c].playerId = after.white => after.whiteConnected
            /\ conns[c].playerId = after.black => after.blackConnected

\* C26: a join, move, resign, accept-draw or decline-draw frame that the
\* server does not apply is answered with an error frame to its sender.
\* The code contradicts it: a MOVE frame that lacks gameId, from or to is
\* dropped without an answer.
NoSilentDrop ==
  \A c \in Conns :
    conns[c].open =>
      \A r \in MoveResults(c)
                \cup {handleJoinGame(c, g) : g \in FrameGameIds}
                \cup {handleResign(c), handleAcceptDraw(c), handleDeclineDraw(c)} :
        NoChange(r) => HasError(r, c)

\* frame f tells its receiver that the game is over
TellsGameOver(f) ==
  \/ f.type = "GAME_OVER"
  \/ f.type = "MOVE_MADE" /\ f.gameOver

\* C27: every frame that tells the players that the game is over carries a
\* reason.
\* The code contradicts it: the MOVE_MADE frame of a move that ends the
\* game carries gameOver and result, and no reason.
GameOverCarriesReason ==
  \A c \in Conns :
    InGame(c) =>
      \A r \in InGameResults(c) : \A d \in Conns : \A i \in DOMAIN r.out[d] :
        TellsGameOver(r.out[d][i]) => "reason" \in DOMAIN r.out[d][i]

\* C28: no two open connections are logged in as the same player.
\* The code contradicts it: handleLogin sets the closure's playerId and
\* closes nothing.
OneConnectionPerIdentity ==
  \A c, d \in Conns :
    (/\ c # d
     /\ conns[c].open /\ conns[d].open
     /\ conns[c].playerId # NoId)
      => conns[c].playerId # conns[d].playerId

\* a JOIN_GAME of connection c for game g goes through
CanJoin(c, g) == conns[c].open /\ JoinError(conns[c].playerId, g) = ""

\* C30 as stated: after B's join both A's and B's connections have
\* received the opponent-joined frame.
\* The code sends it to A only.
BothGetOpponentJoined ==
  \A c \in Conns : \A g \in FrameGameIds :
    CanJoin(c, g) =>
      \A d \in Conns :
        (d = c \/ (conns[d].open /\ conns[d].playerId = games[g].white))
          => HasFrame(handleJoinGame(c, g), d, "OPPONENT_JOINED")

\* C30, amended: a created game is 'waiting'; B's join makes it 'playing',
\* B's connection gets GAME_JOINED naming A as opponent, and every
\* connection of A gets OPPONENT_JOINED naming B.
JoinTellsBothPlayers ==
  /\ \A c \in Conns :
       (conns[c].open /\ conns[c].playerId # NoId) =>
         LET r == handleCreateGame(c)
             gid == Len(games) + 1
         IN /\ r.games[gid].status = "waiting"
            /\ r.games[gid].white = conns[c].playerId
            /\ r.games[gid].black = NoId
            /\ r.out = Send(NoOut, c, [type |-> "GAME_CREATED", gameId |-> gid,
                                       color |-> "white", fen |-> NewChess])
  /\ \A c \in Conns : \A g \in FrameGameIds :
       CanJoin(c, g) =>
         LET r == handleJoinGame(c, g)
             A == games[g].white
             B == conns[c].playerId
             joined == [type |-> "GAME_JOINED", gameId |-> g, color |-> "black",
                        opponent |-> A, fen |-> games[g].chess]
             told == [type |-> "OPPONENT_JOINED", gameId |-> g,
                      opponent |-> B, fen |-> games[g].chess]
         IN /\ games[g].status = "waiting"
            /\ r.games[g].status = "playing"
            /\ \A d \in Conns :
                 r.out[d] = (IF d = c THEN <<joined>> ELSE <<>>)
                            \o (IF conns[d].open /\ conns[d].playerId = A
                                THEN <<told>> ELSE <<>>)

\* C30 witness: A, connected, has created a game that is waiting, and B,
\* connected, joins it
JoinTellsWitness ==
  \E c, d \in Conns : \E g \in DOMAIN games :
    /\ last = "create"
    /\ conns[d].open /\ conns[d].playerId = games[g].white /\ conns[d].gameId = g
    /\ CanJoin(c, g)
    /\ HasFrame(handleJoinGame(c, g), c, "GAME_JOINED")
    /\ HasFrame(handleJoinGame(c, g), d, "OPPONENT_JOINED")

\* the writes of recording i that reached the database, committed or in an
\* open transaction
Applied(i) == Writes(i) \cap (db \cup UNION {pool[k].pending : k \in PoolClients})

\* C22: when the white or the black player of a game is not in the users
\* table (a guest, or nobody joined), the recording of its result writes no
\* matches row and no rating; the game is completed and its players are
\* told GAME_OVER all the same, by a resignation and by an accepted draw.
GuestGameLeavesNoRecord ==
  /\ \A i \in DOMAIN recs :
       (recs[i].white \notin users \/ recs[i].black \notin users)
         => Applied(i) = {}
  /\ \A c \in Conns :
       (/\ InGame(c)
        /\ conns[c].playerId \in {GameOf(c).white, GameOf(c).black}
        /\ (GameOf(c).white \notin users \/ GameOf(c).black \notin users))
         => LET game == GameOf(c)
                Ends(r) ==
                  /\ r.games[game.id].status = "completed"
                  /\ r.recorded # <<>>
                  /\ \A d \in Conns :
                       (/\ conns[d].open /\ conns[d].playerId # NoId
                        /\ conns[d].playerId \in {game.white, game.black})
                         => HasFrame(r, d, "GAME_OVER")
            IN /\ Ends(handleResign(c))
               /\ (CanAnswerOffer(c) /\ game.status = "playing")
                    => Ends(handleAcceptDraw(c))

\* a game between a registered white and a guest black was completed, and
\* its recording returned after the two SELECTs
GuestGameWitness ==
  \E i \in DOMAIN recs :
    /\ ~down
    /\ recs[i].pc = "skipped"
    /\ recs[i].white \in users
    /\ recs[i].black \notin users /\ recs[i].black # NoId
    /\ recs[i].game \in DOMAIN games
    /\ games[recs[i].game].status = "completed"

\* C23: when a query of recordGameResult fails, the game stays completed (in
\* the registry, with its status) and the failure brings no further call of
\* recordGameResult for it.
\* The code contradicts it: recordGameResult is called without await or
\* catch, and its catch block awaits pool.query('ROLLBACK'); when that is
\* rejected too (the database is unreachable) the rejection is unhandled and
\* the process exits, and the registry with every game in it is lost.
RecorderFailureHarmless ==
  [][\A g \in DOMAIN games :
       games[g].status = "completed"
         => g \in DOMAIN games' /\ games'[g].status = "completed"]_vars

\* C24: the matches row and the two rating updates of a recording are
\* committed together or not at all, whichever statement fails and whatever
\* else runs on the pool.
\* The code contradicts it: BEGIN, the three writes, COMMIT and ROLLBACK are
\* separate pool.query calls, each on whichever client of the pool is idle;
\* a write that runs on a client BEGIN was not sent to is committed at once,
\* and the ROLLBACK after a later failure does not undo it.
RecordingIsAtomic ==
  \A i \in DOMAIN recs :
    recs[i].pc \in Finished => Writes(i) \cap db \in {{}, Writes(i)}


\* C25: a frame that is not JSON, or that names no event the server knows,
\* leaves the connection open and every game as it is, and the frames that
\* follow it are processed.
\* The code contradicts it: the message handler of server.js reads
\* message.t outside its try block, so the frame null (JSON, and no event)
\* throws a TypeError nobody catches; the process exits, and with it every
\* connection and every game.
BadFrameIgnored ==
  \A s \in Sockets : \A f \in BadFrames :
    sockets[s].state = "open" =>
      LET r == wsMessage(s, f)
      IN /\ ~r.thrown
         /\ r.sockets = sockets
         /\ r.games = wsGames
         /\ r.userSockets = userSockets

\* C29: at a heartbeat tick every open connection with an unanswered ping
\* is closed, and closed as by an ordinary close (its userSockets entry
\* deleted, its game in progress abandoned, the other player told
\* OPPONENT_DISCONNECTED); the tick closes no other connection, and a
\* connection that has answered its pings has no ping unanswered.
HeartbeatClosesSilent ==
  LET r == heartbeat
  IN \A s \in Sockets :
       sockets[s].state = "open" =>
         /\ (~sockets[s].ping) => sockets[s].isAlive
         /\ sockets[s].isAlive =>
              /\ r.sockets[s].state = "open"
              /\ r.sockets[s].ping /\ ~r.sockets[s].isAlive
         /\ ~sockets[s].isAlive =>
              LET g == sockets[s].gameId
                  u == sockets[s].username
                  only == wsClose({s}, "closed")
              IN /\ r.sockets[s].state = "terminated"
                 /\ u # NoId => r.userSockets[u] = NoSocket
                 /\ (g \in DOMAIN wsGames /\ wsGames[g].status = "playing")
                      => r.games[g].status = "abandoned"
                 /\ \A d \in Sockets :
                      r.sockets[d].state = "open" => only.out[d] \subseteq r.out[d]
                 /\ (\A d \in Sockets \ {s} : sockets[d].state = "open" => sockets[d].isAlive)
                      => /\ r.games = only.games
                         /\ r.userSockets = only.userSockets
                         /\ r.out = only.out

\* the heartbeat has terminated the socket of a player of a game in
\* progress, the game is abandoned, and the other player, who answered the
\* ping, is still connected
HeartbeatWitness ==
  \E s, d \in Sockets : \E g \in DOMAIN wsGames :
    /\ last = "tick"
    /\ sockets[s].state = "terminated" /\ sockets[s].gameId = g
    /\ sockets[d].state = "open" /\ sockets[d].gameId = g
    /\ wsGames[g].status = "abandoned"


\* C31: the frames a game's event sends to connections other than the
\* sender go to connections bound to that game only; a connection bound to
\* another game or to none gets nothing, whatever identity it logged in
\* with.
\* The code contradicts it: the broadcasts go through wss.clients and
\* compare client.playerId with the two seats, never the game the client is
\* in, so a second connection logged in with a player's name gets the
\* game's frames without having joined it.
NoticeOnlyToBound ==
  \A c \in Conns :
    InGame(c) =>
      \A r \in InGameResults(c) : \A d \in Conns \ {c} :
        r.out[d] # <<>> => conns[d].gameId = conns[c].gameId

\* C33: a legal move on the sender's turn has the same effect, and is
\* answered with the same frames, sent as a MOVE frame (t, gameId, from,
\* to, promo) or as a MAKE_MOVE frame.
\* The code contradicts it: case 'MOVE' hands handleMakeMove an object that
\* holds from and to inside payload, handleMakeMove reads data.from and
\* data.to, and the rules engine refuses the move without squares.
MoveShapesAgree ==
  \A c \in Conns :
    (InGame(c) /\ ~NotYourTurn(GameOf(c), conns[c].playerId)) =>
      \A m \in LegalMoves : \A t \in BOOLEAN :
        IsLegal(GameOf(c).chess, m) =>
          onMoveFrame(c, TRUE, t) = handleMakeMove(c, m, t)

\* C34: no call of recordGameResult ends in a rejection nobody handles,
\* whichever of its queries the database rejects.
\* The code contradicts it: the catch block awaits pool.query('ROLLBACK')
\* with no try around it, and no caller awaits or catches recordGameResult.
RecorderNeverRejects ==
  \A i \in DOMAIN recs : recs[i].pc # "rejected"

\* C35: CREATE_GAME and JOIN_GAME of a connection that has not logged in
\* are answered with 'You must log in first' and change nothing.
LoginComesFirst ==
  \A c \in Conns :
    (conns[c].open /\ conns[c].playerId = NoId) =>
      /\ handleCreateGame(c) = Rejected(c, "You must log in first")
      /\ \A g \in FrameGameIds :
           handleJoinGame(c, g) = Rejected(c, "You must log in first")

\* a connection that has not logged in, and a game it could join otherwise
LoginComesFirstWitness ==
  \E c \in Conns : \E g \in DOMAIN games :
    /\ conns[c].open /\ conns[c].playerId = NoId
    /\ games[g].status = "waiting"

\* the place of a status in the life of a game
StatusRank(st) == IF st = "waiting" THEN 0 ELSE IF st = "playing" THEN 1 ELSE 2

\* C36: no event takes a game back from 'completed' to 'playing' or
\* 'waiting', or from 'playing' to 'waiting', and no game leaves the
\* registry.
StatusMovesForward ==
  [][\A g \in DOMAIN games :
       /\ g \in DOMAIN games'
       /\ StatusRank(games'[g].status) >= StatusRank(games[g].status)]_vars

\* a game that was completed otherwise than by a move, and a move accepted
\* in it since
StatusForwardWitness ==
  \E g \in DOMAIN games :
    /\ last = "move"
    /\ games[g].status = "completed"
    /\ games[g].chess.cls = "normal"
    /\ handoffs[g] >= 1

\* C37: the holder of a game's draw offer is nobody or the player on one
\* of its seats.
OfferHolderIsSeated ==
  \A g \in DOMAIN games :
    games[g].drawOffer # NoId => games[g].drawOffer \in {games[g].white, games[g].black}

\* the player who joined made the last draw offer
OfferHolderWitness ==
  \E g \in DOMAIN games :
    /\ last = "offer"
    /\ games[g].black # NoId
    /\ games[g].drawOffer = games[g].black

\* C38: a game that ends with a win names a player as the winner: the
\* winner of every frame is the player on a seat, and no win is recorded
\* for an empty seat.
\* The code contradicts it: handleResign gives the win to the other seat
\* without looking at it, so the creator's RESIGN in a game nobody joined
\* is recorded as black_win and announced with winner null.
WinnerHoldsSeat ==
  \A c \in Conns :
    InGame(c) =>
      \A r \in InGameResults(c) :
        /\ \A d \in Conns : \A i \in DOMAIN r.out[d] :
             "winner" \in DOMAIN r.out[d][i] => r.out[d][i].winner # NoId
        /\ \A n \in DOMAIN r.recorded :
             /\ r.recorded[n].result = "white_win" => GameOf(c).white # NoId
             /\ r.recorded[n].result = "black_win" => GameOf(c).black # NoId

\* the seat connection c plays on: that of the identity it is logged in with
SeatOf(c) ==
  IF ~InGame(c) THEN "none"
  ELSE IF conns[c].playerId = GameOf(c).white THEN "w"
  ELSE IF conns[c].playerId = GameOf(c).black THEN "b"
  ELSE "none"

\* a move of connection c is accepted for the seat
MovesFor(c, seat) ==
  /\ SeatOf(c) = seat
  /\ Turn(GameOf(c).chess) = seat
  /\ ~HasError(handleMakeMove(c, "quiet", FALSE), c)

\* C39: a connection that plays on one seat of a game is never, after any
\* frame, one whose move is accepted for the other seat.
\* The code contradicts it: handleLogin takes any username on any
\* connection, also one that is in a game, so a LOGIN with the opponent's
\* name makes the turn check of handleMakeMove pass for the other seat.
OneSeatPerConnection ==
  [][\A c \in Conns :
       /\ SeatOf(c) = "w" => ~(MovesFor(c, "b"))'
       /\ SeatOf(c) = "b" => ~(MovesFor(c, "w"))']_vars


\* C32: server.js applies and relays a MAKE_MOVE (a new stored position, a
\* MOVE_MADE frame) only when the frame's position is the one a legal move
\* leads to from the stored position and the sender is a player of the
\* game.
\* The code contradicts it: case "MAKE_MOVE" stores new Chess(payload.fen)
\* and broadcasts payload.move as they come; chess.js is asked whether the
\* text is a FEN and whether that position ends the game, never whether the
\* move is legal, and socket.username is not compared with the players.
RelayValidatesMoves ==
  \A s \in Sockets : \A g \in DOMAIN wsGames : \A fen \in Fens :
    sockets[s].state = "open" =>
      LET r == wsMakeMove(s, g, fen)
          game == wsGames[g]
      IN (\/ r.games # wsGames
          \/ \E d \in Sockets : \E f \in r.out[d] : f.type = "MOVE_MADE")
           => /\ \E m \in LegalMoves :
                   IsLegal(game.game, m) /\ fen = ChessMove(game.game, m)
              /\ sockets[s].username # NoId
              /\ sockets[s].username \in {game.creator, game.opponent}


\* C40: a refresh token is good for one new pair of tokens: of the
\* /auth/refresh requests that present the same token, one after the other
\* or at the same time, at most one is answered with new tokens.
\* The code contradicts it: the handler reads the row (revoked_at IS NULL)
\* and revokes it two awaits later, outside any transaction, so two
\* requests with the same cookie both pass the check before either
\* revokes; and two tokens signed for a user within one second are the same
\* text in two rows, of which a refresh revokes one.
RefreshTokenSingleUse ==
  \A r, q \in ReqIds :
    (r # q /\ reqs[r].pc = "done" /\ reqs[q].pc = "done")
      => reqs[r].token # reqs[q].token

====
